---- MODULE Spec2Model ----
(***************************************************************************)
(* diatonicPy: pitch classes (pitch.py), intervals (interval.py) and the   *)
(* helpers they share (utils.py).                                          *)
(*                                                                         *)
(* Python strings are sequences of one-character strings, so that          *)
(* formatting ("{}{}".format, str), slicing (s[0], s[1:], s[-1]) and       *)
(* parsing (int) are computed as the code computes them.  A call that      *)
(* raises yields the record [raise |-> <exception class>]; None is the     *)
(* record [none |-> TRUE].  A dict is the sequence of its <<key, value>>   *)
(* items in insertion order.                                               *)
(***************************************************************************)
EXTENDS Integers, Sequences, FiniteSets, TLC

VARIABLES pitch, other, itv, direction, result, op, arg

vars == <<pitch, other, itv, direction, result, op, arg>>

----------------------------------------------------------------------------
(* Python values *)

None == [none |-> TRUE]

Raise(e) == [raise |-> e]

Raised(x) == "raise" \in DOMAIN x

IsNone(x) == "none" \in DOMAIN x

Val(v) == [val |-> v]

Digits == <<"0", "1", "2", "3", "4", "5", "6", "7", "8", "9">>

DigitVal(c) == (CHOOSE k \in 1..10 : Digits[k] = c) - 1

RECURSIVE str(_)
(* str(n) for an int n >= 0 *)
str(n) == IF n < 10 THEN <<Digits[n + 1]>>
          ELSE str(n \div 10) \o <<Digits[(n % 10) + 1]>>

RECURSIVE int(_)
(* int(s) for a non-empty string of decimal digits *)
int(s) == IF Len(s) = 1 THEN DigitVal(s[1])
          ELSE 10 * int(SubSeq(s, 1, Len(s) - 1)) + DigitVal(s[Len(s)])

(* ASCII codes 64..73, the range chr is applied to in shift *)
ASCII == <<"@", "A", "B", "C", "D", "E", "F", "G", "H", "I">>

ord(c) == 63 + (CHOOSE k \in 1..Len(ASCII) : ASCII[k] = c)

chr(n) == ASCII[n - 63]

(* dict helpers *)
Keys(dict) == {dict[k][1] : k \in DOMAIN dict}

Item(dict, key) == dict[CHOOSE k \in DOMAIN dict : dict[k][1] = key][2]

(* dict[key]: KeyError when the key is absent *)
GetItem(dict, key) == IF key \in Keys(dict) THEN Val(Item(dict, key))
                      ELSE Raise("KeyError")

----------------------------------------------------------------------------
(* utils.py *)

RECURSIVE search_dict_by_value(_, _)
search_dict_by_value(dict, val) ==
    IF dict = <<>> THEN <<>>
    ELSE (IF Head(dict)[2] = val THEN <<Head(dict)[1]>> ELSE <<>>)
         \o search_dict_by_value(Tail(dict), val)

constrain_by_cycle(val, pha, cyc) ==
    IF pha <= val /\ val <= (pha + cyc) THEN val
    ELSE ((val % cyc) - (pha % cyc)) + pha

----------------------------------------------------------------------------
(* interval.py: constants *)

INTERVAL_QUALITIES ==
    << <<"d", -2>>, <<"m", -1>>, <<"P", 0>>, <<"M", 1>>, <<"A", 2>> >>

(* INTERVAL_QUALITIES(v).name *)
QualityByValue(v) ==
    INTERVAL_QUALITIES[CHOOSE k \in DOMAIN INTERVAL_QUALITIES :
                           INTERVAL_QUALITIES[k][2] = v][1]

INTERVALS ==
    << <<(<<"P", "1">>), 0>>,
       <<(<<"m", "2">>), 1>>,
       <<(<<"A", "1">>), 1>>,
       <<(<<"M", "2">>), 2>>,
       <<(<<"d", "3">>), 2>>,
       <<(<<"m", "3">>), 3>>,
       <<(<<"A", "2">>), 3>>,
       <<(<<"M", "3">>), 4>>,
       <<(<<"d", "4">>), 4>>,
       <<(<<"P", "4">>), 5>>,
       <<(<<"A", "3">>), 5>>,
       <<(<<"A", "4">>), 6>>,
       <<(<<"d", "5">>), 6>>,
       <<(<<"P", "5">>), 7>>,
       <<(<<"d", "6">>), 7>>,
       <<(<<"m", "6">>), 8>>,
       <<(<<"A", "5">>), 8>>,
       <<(<<"M", "6">>), 9>>,
       <<(<<"d", "7">>), 9>>,
       <<(<<"m", "7">>), 10>>,
       <<(<<"A", "6">>), 10>>,
       <<(<<"M", "7">>), 11>>,
       <<(<<"P", "8">>), 12>> >>

DEGREE_MIN == 1

DEGREE_MAX == 52

----------------------------------------------------------------------------
(* interval.py: AbstractInterval *)

AbstractInterval_res_name(intervalName) ==
    IF intervalName[1] \notin Keys(INTERVAL_QUALITIES) THEN Raise("ValueError")
    ELSE IF ~(DEGREE_MIN <= int(Tail(intervalName))
              /\ int(Tail(intervalName)) <= DEGREE_MAX) THEN Raise("ValueError")
    ELSE [quality |-> intervalName[1], degree |-> int(Tail(intervalName))]

(* AbstractInterval(name): __init__ -> set, the str branch *)
AbstractInterval_set(interval) == AbstractInterval_res_name(interval)

(* AbstractInterval(n): __init__ -> set, the int branch and the else *)
AbstractInterval_set_int(interval) ==
    IF 0 < interval /\ interval < 88
    THEN LET singleIntervalName ==
                 search_dict_by_value(INTERVALS, interval % 12)[1]
         IN  [quality |-> singleIntervalName[1],
              degree |-> (interval \div 12) * 7 + int(<<singleIntervalName[2]>>)]
    ELSE Raise("TypeError")

AbstractInterval_str(i) == <<i.quality>> \o str(i.degree)

AbstractInterval_octave(i) == (i.degree - 1) \div 7

AbstractInterval_singleName(i) ==
    <<i.quality>> \o str(constrain_by_cycle(i.degree, 1, 7))

AbstractInterval_singleSize(i) ==
    GetItem(INTERVALS, AbstractInterval_singleName(i))

AbstractInterval_singleDegree(i) == i.degree % 7

AbstractInterval_size(i) ==
    LET s == GetItem(INTERVALS, AbstractInterval_singleName(i))
    IN  IF Raised(s) THEN s
        ELSE Val(s.val + AbstractInterval_octave(i) * 12)

AbstractInterval_invert(i) ==
    AbstractInterval_set(
        <<QualityByValue(-Item(INTERVAL_QUALITIES, i.quality))>>
        \o str(9 - AbstractInterval_singleDegree(i)
                 + AbstractInterval_octave(i) * 7))

----------------------------------------------------------------------------
(* pitch.py: constants *)

NATURAL_PITCHES ==
    << <<"C", 0>>, <<"D", 2>>, <<"E", 4>>, <<"F", 5>>, <<"G", 7>>,
       <<"A", 9>>, <<"B", 11>> >>

NATURAL_SCALE ==
    << <<"C", 1>>, <<"D", 2>>, <<"E", 3>>, <<"F", 4>>, <<"G", 5>>,
       <<"A", 6>>, <<"B", 7>> >>

ACCIDENTALS ==
    << <<(<<"d", "f">>), -2>>, <<(<<"f">>), -1>>, <<(<<"n">>), 0>>,
       <<(<<"s">>), 1>>, <<(<<"d", "s">>), 2>> >>

PITCHES ==
    << <<(<<"C">>), 0>>,
       <<(<<"B", "s">>), 0>>,
       <<(<<"D", "d", "f">>), 0>>,
       <<(<<"C", "s">>), 1>>,
       <<(<<"D", "f">>), 1>>,
       <<(<<"D">>), 2>>,
       <<(<<"C", "d", "s">>), 2>>,
       <<(<<"E", "d", "f">>), 2>>,
       <<(<<"D", "s">>), 3>>,
       <<(<<"E", "f">>), 3>>,
       <<(<<"E">>), 4>>,
       <<(<<"D", "d", "s">>), 4>>,
       <<(<<"F", "f">>), 4>>,
       <<(<<"F">>), 5>>,
       <<(<<"E", "s">>), 5>>,
       <<(<<"G", "d", "f">>), 5>>,
       <<(<<"F", "s">>), 6>>,
       <<(<<"G", "f">>), 6>>,
       <<(<<"G">>), 7>>,
       <<(<<"F", "d", "s">>), 7>>,
       <<(<<"A", "d", "f">>), 7>>,
       <<(<<"G", "s">>), 8>>,
       <<(<<"A", "f">>), 8>>,
       <<(<<"A">>), 9>>,
       <<(<<"G", "d", "s">>), 9>>,
       <<(<<"B", "d", "s">>), 9>>,
       <<(<<"A", "s">>), 10>>,
       <<(<<"B", "f">>), 10>>,
       <<(<<"B">>), 11>>,
       <<(<<"A", "d", "s">>), 11>>,
       <<(<<"C", "f">>), 11>> >>

----------------------------------------------------------------------------
(* pitch.py: GenericPitch *)

GenericPitch_res_name(pitchName) ==
    IF pitchName[1] \notin Keys(NATURAL_PITCHES) THEN Raise("ValueError")
    ELSE IF Len(pitchName) = 1
         THEN [name |-> pitchName[1], accidental |-> <<"n">>]
    ELSE IF Tail(pitchName) \in Keys(ACCIDENTALS)
         THEN [name |-> pitchName[1], accidental |-> Tail(pitchName)]
    ELSE Raise("ValueError")

(* the str branch *)
GenericPitch_set_pitch(pitchName) == GenericPitch_res_name(pitchName)

(* NATURAL_PITCHES(num): ValueError when no member has the value *)
NaturalByValue(num) ==
    IF \E k \in DOMAIN NATURAL_PITCHES : NATURAL_PITCHES[k][2] = num
    THEN Val(NATURAL_PITCHES[CHOOSE k \in DOMAIN NATURAL_PITCHES :
                                 NATURAL_PITCHES[k][2] = num][1])
    ELSE Raise("ValueError")

(* name_by_num preferring the sharp of the natural below to the flat of
   the natural above *)
GenericPitch_name_by_num_sharp(num) ==
    IF ~(0 <= num /\ num < 12) THEN Raise("ValueError")
    ELSE IF ~Raised(NaturalByValue(num)) THEN Val(<<NaturalByValue(num).val>>)
    ELSE IF ~Raised(NaturalByValue(num - 1))
         THEN Val(<<NaturalByValue(num - 1).val>> \o <<"s">>)
    ELSE Raise("ValueError")

(* the except branch lets the ValueError of NATURAL_PITCHES(num + 1)
   propagate *)
GenericPitch_name_by_num(num) ==
    IF ~(0 <= num /\ num < 12) THEN Raise("ValueError")
    ELSE IF ~Raised(NaturalByValue(num)) THEN Val(<<NaturalByValue(num).val>>)
    ELSE IF ~Raised(NaturalByValue(num + 1))
         THEN Val(<<NaturalByValue(num + 1).val>> \o <<"f">>)
    ELSE Raise("ValueError")

(* GenericPitch(n): __init__ -> set -> set_pitch, the int branch *)
GenericPitch_set_pitch_int(num) ==
    IF Raised(GenericPitch_name_by_num(num)) THEN GenericPitch_name_by_num(num)
    ELSE GenericPitch_res_name(GenericPitch_name_by_num(num).val)

(* GenericPitch(name): __init__ -> set -> set_pitch *)
GenericPitch_set(pitchName) == GenericPitch_set_pitch(pitchName)

GenericPitch_str(p) ==
    <<p.name>> \o (IF p.accidental = <<"n">> THEN <<>> ELSE p.accidental)

GenericPitch_number(p) ==
    (Item(NATURAL_PITCHES, p.name) + Item(ACCIDENTALS, p.accidental)) % 12

GenericPitch_scaleDegree(p) == Item(NATURAL_SCALE, p.name)

(* names.apppend raises AttributeError for every num; the bare except
   then searches PITCHES *)
GenericPitch_names_by_num(num) ==
    IF ~(0 <= num /\ num < 12) THEN Raise("ValueError")
    ELSE Val(search_dict_by_value(PITCHES, num))

(* the fallback index with the sign of direction taken the other way *)
FallbackIndex_sign_flipped(dir) == (1 + dir) \div 2

(* int(1 - direction / 2): true division, then truncation toward zero;
   (2 - direction) / 2 is positive for direction in {-1, 1} *)
FallbackIndex(dir) == (2 - dir) \div 2

(* shift's pitchNumber, once interval.singleSize is known *)
shift_pitchNumber(self, singleSize, dir) ==
    constrain_by_cycle(GenericPitch_number(self) + dir * singleSize, 0, 12)

(* shift's shiftedPitchName *)
shift_shiftedPitchName(self, interval, dir) ==
    chr(constrain_by_cycle(
            ord(self.name)
            + dir * (int(<<AbstractInterval_singleName(interval)[2]>>) - 1),
            65, 8))

GenericPitch_shift(self, interval, dir) ==
    LET singleSize == AbstractInterval_singleSize(interval)
    IN  IF Raised(singleSize) THEN singleSize
        ELSE
        LET pitchNumber == shift_pitchNumber(self, singleSize.val, dir)
            shiftedPitchName == shift_shiftedPitchName(self, interval, dir)
            pitchNames == GenericPitch_names_by_num(pitchNumber)
        IN  IF Raised(pitchNames) THEN pitchNames
            ELSE
            LET found == SelectSeq(pitchNames.val,
                                   LAMBDA pitchName : shiftedPitchName = pitchName[1])
            IN  IF found # <<>> THEN GenericPitch_set(Head(found))
                ELSE GenericPitch_set(pitchNames.val[FallbackIndex(dir) + 1])

----------------------------------------------------------------------------
(* interval.py: AbstractInterval.eval, eval_min *)

(* eval with the descending step count normalised by + 7 instead of + 8 *)
AbstractInterval_eval_steps_off_by_one(rootPitch, topPitch) ==
    LET intervalSize0 == GenericPitch_number(topPitch) - GenericPitch_number(rootPitch)
        degreeSize0 == GenericPitch_scaleDegree(topPitch)
                       - GenericPitch_scaleDegree(rootPitch)
        intervalSize == IF intervalSize0 >= 0 THEN intervalSize0
                        ELSE intervalSize0 + 12
        degreeSize == IF degreeSize0 >= 0 THEN degreeSize0 + 1
                      ELSE degreeSize0 + 7
        singleDegreeSize == constrain_by_cycle(degreeSize, 1, 7)
        singleIntervalSize == intervalSize % 12
        singleIntervalNames == search_dict_by_value(INTERVALS, singleIntervalSize)
        found == SelectSeq(singleIntervalNames,
                           LAMBDA n : int(<<n[Len(n)]>>) = singleDegreeSize)
    IN  IF found # <<>>
        THEN AbstractInterval_set(<<Head(found)[1]>> \o str(degreeSize))
        ELSE AbstractInterval_set(singleIntervalNames[1])

AbstractInterval_eval(rootPitch, topPitch) ==
    LET intervalSize0 == GenericPitch_number(topPitch) - GenericPitch_number(rootPitch)
        degreeSize0 == GenericPitch_scaleDegree(topPitch)
                       - GenericPitch_scaleDegree(rootPitch)
        intervalSize == IF intervalSize0 >= 0 THEN intervalSize0
                        ELSE intervalSize0 + 12
        degreeSize == IF degreeSize0 >= 0 THEN degreeSize0 + 1
                      ELSE degreeSize0 + 8
        singleDegreeSize == constrain_by_cycle(degreeSize, 1, 7)
        singleIntervalSize == intervalSize % 12
        singleIntervalNames == search_dict_by_value(INTERVALS, singleIntervalSize)
        found == SelectSeq(singleIntervalNames,
                           LAMBDA n : int(<<n[Len(n)]>>) = singleDegreeSize)
    IN  IF found # <<>>
        THEN AbstractInterval_set(<<Head(found)[1]>> \o str(degreeSize))
        ELSE AbstractInterval_set(singleIntervalNames[1])

Abs(x) == IF x < 0 THEN -x ELSE x

AbstractInterval_eval_min(pitch1, pitch2) ==
    IF Abs(GenericPitch_number(pitch1) - GenericPitch_number(pitch2))
       < Abs(GenericPitch_number(pitch2) - GenericPitch_number(pitch1))
    THEN AbstractInterval_eval(pitch1, pitch2)
    ELSE AbstractInterval_eval(pitch2, pitch1)

----------------------------------------------------------------------------
(* The client's inputs *)

MaxInputDegree == 53

InputLetters == {"C", "D", "E", "F", "G", "A", "B", "H"}

InputSuffixes == {<<>>, <<"n">>, <<"s">>, <<"f">>, <<"d", "s">>, <<"d", "f">>, <<"b">>}

PitchNames == {<<l>> \o a : l \in InputLetters, a \in InputSuffixes}

InputQualities == {"d", "m", "P", "M", "A", "X"}

IntervalNames == {<<q>> \o str(d) : q \in InputQualities, d \in 0..MaxInputDegree}

Directions == {-1, 1}

MaxInputCount == 89

(* semitone counts given to AbstractInterval(n) *)
IntervalCounts == -1..MaxInputCount

MaxInputNumber == 12

(* pitch numbers given to GenericPitch(n) *)
PitchNumbers == -1..MaxInputNumber

(* the int a constructor was given, and the object it was to build *)
IntArg(n, what) == [val |-> n, of |-> what]

FromInt(what) == ~IsNone(arg) /\ arg.of = what

----------------------------------------------------------------------------
(* State: the pitch and interval objects the client holds, the argument of
   its last shift (0: no shift yet), the value its last call returned or
   the exception it raised, that call, and the int argument of the one
   constructor call that was given an int (None: all were given names). *)

Init ==
    /\ pitch = None
    /\ other = None
    /\ itv = None
    /\ direction = 0
    /\ result = None
    /\ op = "new"
    /\ arg = None

(* pitch = GenericPitch(s) *)
NewPitch(s) ==
    /\ op = "new" /\ IsNone(pitch) /\ IsNone(itv)
    /\ LET p == GenericPitch_set(s)
       IN  IF Raised(p)
           THEN /\ result' = p /\ op' = "raise" /\ UNCHANGED pitch
           ELSE /\ pitch' = p /\ UNCHANGED <<result, op>>
    /\ UNCHANGED <<other, itv, direction, arg>>

(* other = GenericPitch(s) *)
NewOther(s) ==
    /\ op = "new" /\ ~IsNone(pitch) /\ IsNone(other) /\ IsNone(itv)
    /\ LET p == GenericPitch_set(s)
       IN  IF Raised(p)
           THEN /\ result' = p /\ op' = "raise" /\ UNCHANGED other
           ELSE /\ other' = p /\ UNCHANGED <<result, op>>
    /\ UNCHANGED <<pitch, itv, direction, arg>>

(* itv = AbstractInterval(s) *)
NewInterval(s) ==
    /\ op = "new" /\ IsNone(itv) /\ IsNone(other)
    /\ LET i == AbstractInterval_set(s)
       IN  IF Raised(i)
           THEN /\ result' = i /\ op' = "raise" /\ UNCHANGED itv
           ELSE /\ itv' = i /\ UNCHANGED <<result, op>>
    /\ UNCHANGED <<pitch, other, direction, arg>>

(* pitch = GenericPitch(n) *)
NewPitchFromInt(n) ==
    /\ op = "new" /\ IsNone(pitch) /\ IsNone(itv) /\ IsNone(arg)
    /\ LET p == GenericPitch_set_pitch_int(n)
       IN  IF Raised(p)
           THEN /\ result' = p /\ op' = "raise" /\ UNCHANGED pitch
           ELSE /\ pitch' = p /\ UNCHANGED <<result, op>>
    /\ arg' = IntArg(n, "pitch")
    /\ UNCHANGED <<other, itv, direction>>

(* itv = AbstractInterval(n) *)
NewIntervalFromInt(n) ==
    /\ op = "new" /\ IsNone(itv) /\ IsNone(other) /\ IsNone(arg)
    /\ LET i == AbstractInterval_set_int(n)
       IN  IF Raised(i)
           THEN /\ result' = i /\ op' = "raise" /\ UNCHANGED itv
           ELSE /\ itv' = i /\ UNCHANGED <<result, op>>
    /\ arg' = IntArg(n, "interval")
    /\ UNCHANGED <<pitch, other, direction>>

(* other = pitch.shift(itv, d) *)
Shift(d) ==
    /\ op = "new" /\ ~IsNone(pitch) /\ ~IsNone(itv)
    /\ LET p == GenericPitch_shift(pitch, itv, d)
       IN  /\ result' = p
           /\ other' = IF Raised(p) THEN other ELSE p
    /\ direction' = d
    /\ op' = "shift"
    /\ UNCHANGED <<pitch, itv, arg>>

(* result = AbstractInterval.eval(pitch, other) *)
Eval ==
    /\ op \in {"new", "shift"} /\ ~IsNone(pitch) /\ ~IsNone(other)
    /\ result' = AbstractInterval_eval(pitch, other)
    /\ op' = "eval"
    /\ UNCHANGED <<pitch, other, itv, direction, arg>>

(* result = AbstractInterval.eval_min(pitch, other) *)
EvalMin ==
    /\ op = "new" /\ ~IsNone(pitch) /\ ~IsNone(other)
    /\ result' = AbstractInterval_eval_min(pitch, other)
    /\ op' = "eval_min"
    /\ UNCHANGED <<pitch, other, itv, direction, arg>>

(* result = itv.invert() *)
Invert ==
    /\ op = "new" /\ IsNone(pitch) /\ ~IsNone(itv)
    /\ result' = AbstractInterval_invert(itv)
    /\ op' = "invert"
    /\ UNCHANGED <<pitch, other, itv, direction, arg>>

(* result = result.invert(), i.e. itv.invert().invert() *)
InvertAgain ==
    /\ op = "invert" /\ ~Raised(result)
    /\ result' = AbstractInterval_invert(result)
    /\ op' = "invert_invert"
    /\ UNCHANGED <<pitch, other, itv, direction, arg>>

Next ==
    \/ \E s \in PitchNames : NewPitch(s)
    \/ \E s \in PitchNames : NewOther(s)
    \/ \E s \in IntervalNames : NewInterval(s)
    \/ \E n \in PitchNumbers : NewPitchFromInt(n)
    \/ \E n \in IntervalCounts : NewIntervalFromInt(n)
    \/ \E d \in Directions : Shift(d)
    \/ Eval
    \/ EvalMin
    \/ Invert
    \/ InvertAgain

Spec == Init /\ [][Next]_vars

TypeOK ==
    /\ op \in {"new", "raise", "shift", "eval", "eval_min", "invert", "invert_invert"}
    /\ direction \in {-1, 0, 1}

----------------------------------------------------------------------------
(* Notions the properties are stated with, independent of the code above *)

(* the degree reduced to 1..7 *)
ReducedDegree(d) == ((d - 1) % 7) + 1

(* the full octaves a degree spans *)
OctavesOf(d) == (d - 1) \div 7

LetterCycle == <<"C", "D", "E", "F", "G", "A", "B">>

(* letter l moved k positions around the 7-letter cycle *)
LetterMoved(l, k) ==
    LetterCycle[(((CHOOSE j \in 1..7 : LetterCycle[j] = l) - 1 + k) % 7) + 1]

Min(a, b) == IF a <= b THEN a ELSE b

SizeDefined(i) == ~Raised(AbstractInterval_size(i))

(* the semitone number p.shift(i, d) is to reach *)
TargetNumber(p, i, d) ==
    (GenericPitch_number(p) + d * AbstractInterval_size(i).val) % 12

----------------------------------------------------------------------------
(* C1: for every pitch p, every accepted interval i with a defined size and
   every direction d in {-1, +1}, p.shift(i, d) returns a pitch (it does
   not raise) whose number is (p.number + d * i.size) mod 12. *)
C1_ShiftReachesTargetNumber ==
    (op = "shift" /\ SizeDefined(itv)) =>
        /\ ~Raised(result)
        /\ GenericPitch_number(result) = TargetNumber(pitch, itv, direction)

(* C2: with L the letter of p moved d * (singleDegree - 1) positions around
   C,D,E,F,G,A,B (singleDegree in 1..7): whenever the enharmonic spellings
   of the target number hold a spelling with letter L, p.shift(i, d)
   returns exactly that spelling. *)
C2_ShiftPicksTargetLetter ==
    (op = "shift" /\ SizeDefined(itv)) =>
        LET L == LetterMoved(pitch.name,
                             direction * (ReducedDegree(itv.degree) - 1))
            spellings == search_dict_by_value(
                             PITCHES, TargetNumber(pitch, itv, direction))
            withL == SelectSeq(spellings, LAMBDA n : n[1] = L)
        IN  withL # <<>> =>
                (~Raised(result) /\ GenericPitch_str(result) = Head(withL))

(* C3: the pitch constructed from a name listed in PITCHES has the number
   the table gives that name. *)
C3_NumberMatchesTable ==
    (~IsNone(pitch) /\ GenericPitch_str(pitch) \in Keys(PITCHES)) =>
        GenericPitch_number(pitch) = Item(PITCHES, GenericPitch_str(pitch))

(* C4: for any pitch p and interval i, the interval measured by eval from
   p to p.shift(i, +1) has size i.size. *)
C4_EvalOfShiftHasSize ==
    (op = "eval" /\ direction = 1) =>
        /\ ~Raised(result)
        /\ AbstractInterval_size(result) = AbstractInterval_size(itv)

(* C5: eval_min(a, b) returns the interval of the direction with the
   smaller semitone span: its size is min((b - a) mod 12, (a - b) mod 12). *)
C5_EvalMinIsMinimal ==
    op = "eval_min" =>
        /\ ~Raised(result)
        /\ AbstractInterval_size(result) =
               Val(Min((GenericPitch_number(other) - GenericPitch_number(pitch)) % 12,
                       (GenericPitch_number(pitch) - GenericPitch_number(other)) % 12))

(* C6: eval(root, top) returns an interval of size
   (top.number - root.number) mod 12; when INTERVALS holds a name of that
   size whose degree is the inclusive step count from root's letter to
   top's letter (1..7), the result has that degree, otherwise the result
   is the first INTERVALS entry of that size. *)
C6_EvalBetween ==
    op = "eval" =>
        LET n == (GenericPitch_number(other) - GenericPitch_number(pitch)) % 12
            steps == ((GenericPitch_scaleDegree(other)
                       - GenericPitch_scaleDegree(pitch)) % 7) + 1
            names == search_dict_by_value(INTERVALS, n)
            match == SelectSeq(names, LAMBDA k : int(Tail(k)) = steps)
        IN  /\ ~Raised(result)
            /\ AbstractInterval_size(result) = Val(n)
            /\ IF match # <<>> THEN result.degree = steps
               ELSE AbstractInterval_str(result) = names[1]

(* C6 witness: eval(F, E) has returned M7, of size 11 *)
C6_Witness ==
    /\ op = "eval"
    /\ GenericPitch_str(pitch) = <<"F">>
    /\ GenericPitch_str(other) = <<"E">>
    /\ ~Raised(result)
    /\ AbstractInterval_str(result) = <<"M", "7">>
    /\ AbstractInterval_size(result) = Val(11)

(* C7: for every valid interval name x, Interval(x).invert().invert() has
   the size and the degree of Interval(x). *)
C7_InvertInvolution ==
    op = "invert_invert" =>
        /\ ~Raised(result)
        /\ result.degree = itv.degree
        /\ AbstractInterval_size(result) = AbstractInterval_size(itv)

(* C8: for a valid interval of quality value q and degree 7*o + s with s
   in 1..7, invert() returns an interval of quality value -q and degree
   (9 - s) + 7*o. *)
C8_InvertRule ==
    op = "invert" =>
        /\ ~Raised(result)
        /\ Item(INTERVAL_QUALITIES, result.quality)
               = -Item(INTERVAL_QUALITIES, itv.quality)
        /\ result.degree = (9 - ReducedDegree(itv.degree)) + 7 * OctavesOf(itv.degree)

(* C9: for an accepted interval name of degree d whose quality with the
   reduced degree s is in INTERVALS, size is defined and equals
   INTERVALS[quality s] + 12 * ((d - 1) div 7); and each name of INTERVALS
   has its table value as size. *)
C9_SizeFromTable ==
    ~IsNone(itv) =>
        LET single == <<itv.quality>> \o str(ReducedDegree(itv.degree))
        IN  /\ single \in Keys(INTERVALS) =>
                   AbstractInterval_size(itv)
                       = Val(Item(INTERVALS, single) + 12 * OctavesOf(itv.degree))
            /\ AbstractInterval_str(itv) \in Keys(INTERVALS) =>
                   AbstractInterval_size(itv)
                       = Val(Item(INTERVALS, AbstractInterval_str(itv)))

(* C10: for every interval of degree d >= 1, singleDegree is in 1..7,
   octave is (d - 1) div 7, and d = 7 * octave + singleDegree. *)
C10_DegreeDecomposition ==
    ~IsNone(itv) =>
        /\ AbstractInterval_singleDegree(itv) \in 1..7
        /\ AbstractInterval_octave(itv) = OctavesOf(itv.degree)
        /\ itv.degree = 7 * AbstractInterval_octave(itv)
                        + AbstractInterval_singleDegree(itv)

----------------------------------------------------------------------------
(* C11: when an interval is constructed from an int count, the spelling
   chosen for count mod 12 among the INTERVALS entries of that class
   follows the preference perfect, then major/minor, then diminished, then
   augmented. *)
QualityRank(q) ==
    IF q = "P" THEN 0 ELSE IF q \in {"M", "m"} THEN 1 ELSE IF q = "d" THEN 2 ELSE 3

C11_IntSpellingPreference ==
    (FromInt("interval") /\ ~IsNone(itv)) =>
        LET cands == search_dict_by_value(INTERVALS, arg.val % 12)
            chosen == <<itv.quality>> \o str(ReducedDegree(itv.degree))
        IN  /\ \E k \in DOMAIN cands : cands[k] = chosen
            /\ \A k \in DOMAIN cands :
                   QualityRank(itv.quality) <= QualityRank(cands[k][1])

(* C12: constructing an interval from an int count succeeds for every
   count from 0 up to the ceiling of 88 and fails exactly when the count is
   negative or exceeds 88; count 0 gives the unison P1. *)
C12_IntRange ==
    FromInt("interval") =>
        /\ IsNone(itv) <=> (arg.val < 0 \/ arg.val > 88)
        /\ arg.val = 0 => (~IsNone(itv) /\ AbstractInterval_str(itv) = <<"P", "1">>)

(* the natural letter of the smallest base value above n *)
NextNaturalUp(n) ==
    LET above == {k \in DOMAIN NATURAL_PITCHES : NATURAL_PITCHES[k][2] > n}
    IN  NATURAL_PITCHES[CHOOSE k \in above :
            \A j \in above : NATURAL_PITCHES[k][2] <= NATURAL_PITCHES[j][2]][1]

(* C13: for every n in 0..11 the pitch constructed from n has number n; its
   name is the bare natural letter when n is a natural letter's base value
   and otherwise the flat of the next natural letter up; and the pitch
   constructed from that name has number n again. *)
C13_PitchNumberRoundTrip ==
    (FromInt("pitch") /\ arg.val \in 0..11) =>
        /\ ~IsNone(pitch)
        /\ GenericPitch_number(pitch) = arg.val
        /\ GenericPitch_str(pitch) =
               (IF \E k \in DOMAIN NATURAL_PITCHES : NATURAL_PITCHES[k][2] = arg.val
                THEN <<NATURAL_PITCHES[CHOOSE k \in DOMAIN NATURAL_PITCHES :
                                           NATURAL_PITCHES[k][2] = arg.val][1]>>
                ELSE <<NextNaturalUp(arg.val), "f">>)
        /\ ~Raised(GenericPitch_set(GenericPitch_str(pitch)))
        /\ GenericPitch_number(GenericPitch_set(GenericPitch_str(pitch))) = arg.val

(* C13 witness: GenericPitch(10) has been constructed and is Bf *)
C13_Witness ==
    /\ FromInt("pitch")
    /\ arg.val = 10
    /\ ~IsNone(pitch)
    /\ GenericPitch_str(pitch) = <<"B", "f">>
    /\ GenericPitch_number(pitch) = 10

(* the spellings shift looked up, when it looked any up *)
ShiftNames ==
    GenericPitch_names_by_num(
        shift_pitchNumber(pitch, AbstractInterval_singleSize(itv).val, direction))

(* the last call was a shift that reached its fallback: it had a list of
   spellings and none carries the letter it computed *)
ShiftFellBack ==
    /\ op = "shift"
    /\ ~Raised(AbstractInterval_singleSize(itv))
    /\ ~Raised(ShiftNames)
    /\ \A k \in DOMAIN ShiftNames.val :
           ShiftNames.val[k][1] # shift_shiftedPitchName(pitch, itv, direction)

(* C14, as claimed: when no spelling of the target number carries the
   computed target letter, shift returns the first or the last entry of the
   spelling list, never the interior entry of a three-entry list. *)
C14_FallbackIsExtremal ==
    ShiftFellBack =>
        /\ ~Raised(result)
        /\ GenericPitch_str(result) \in
               {ShiftNames.val[1], ShiftNames.val[Len(ShiftNames.val)]}

(* C14, amended: when no spelling of the target number carries the computed
   target letter, shift returns the first entry of the spelling list for
   direction +1 and the second entry for direction -1 (the last entry of a
   two-entry list, the interior entry of a three-entry list). *)
C14_FallbackIsFirstOrSecond ==
    ShiftFellBack =>
        /\ ~Raised(result)
        /\ GenericPitch_str(result) =
               ShiftNames.val[IF direction = 1 THEN 1 ELSE 2]

(* C14 witness: Ddf lowered by A1 computed the letter D, which no spelling
   of 11 carries, and fell back to Ads, the interior entry of B, Ads, Cf *)
C14_Witness ==
    /\ ShiftFellBack
    /\ direction = -1
    /\ GenericPitch_str(pitch) = <<"D", "d", "f">>
    /\ AbstractInterval_str(itv) = <<"A", "1">>
    /\ shift_shiftedPitchName(pitch, itv, direction) = "D"
    /\ Len(ShiftNames.val) = 3
    /\ GenericPitch_str(result) = <<"A", "d", "s">>

(* C15: for every int count n that construction accepts, the interval has
   a defined size equal to n and degree 7 * (n div 12) + the degree of the
   spelling chosen for n mod 12. *)
C15_IntRoundTrip ==
    (FromInt("interval") /\ ~IsNone(itv)) =>
        /\ AbstractInterval_size(itv) = Val(arg.val)
        /\ itv.degree =
               7 * (arg.val \div 12)
               + int(<<search_dict_by_value(INTERVALS, arg.val % 12)[1][2]>>)

====
